---- MODULE Spec2Model ----
(***************************************************************************)
(* duckduckgo-answers (src/main.go): a command-line client that sends a    *)
(* query to the DuckDuckGo Instant Answer API and prints the answer.       *)
(*                                                                         *)
(* Go strings are byte strings: every string the program handles (a line   *)
(* of standard input, the -s argument, a URL, a response body, a field of  *)
(* the decoded Response) is a sequence of bytes 0..255.  The literals of   *)
(* the source are written as their ASCII codes, with the text beside them. *)
(***************************************************************************)
EXTENDS Integers, Sequences, FiniteSets, TLC

\* ------------------------------------------------------------------ bounds

\* Prompts shown in one interactive run (the loop of main is unbounded).
MaxPrompts == 2
\* Bytes of a line of standard input before its terminator.
MaxLineLen == 2
\* Bytes of the -s argument.
MaxArgLen == 2
\* RelatedTopics entries of a response the server sends.
MaxTopics == 2
\* Bytes of the query given to getAPIURL when it is checked as a function.
MaxQueryLen == 2

\* ------------------------------------------------------------ byte strings

\* '\n', the delimiter of inputReader.ReadString and of bufio.ScanLines.
LF == 10
\* '\r', dropped by bufio.ScanLines before a '\n'.
CR == 13

RECURSIVE Concat(_)
\* The concatenation of a sequence of byte strings.
Concat(ss) == IF ss = <<>> THEN <<>> ELSE Head(ss) \o Concat(Tail(ss))

\* Every byte string over alphabet A of length at most n.
Strings(A, n) == UNION {[1..k -> A] : k \in 0..n}

\* The first index of byte c in s, 0 when there is none (strings.IndexByte + 1).
IndexByte(s, c) ==
    IF \E i \in 1..Len(s) : s[i] = c
    THEN CHOOSE i \in 1..Len(s) : s[i] = c /\ \A j \in 1..(i - 1) : s[j] # c
    ELSE 0

\* unicode.IsSpace on an ASCII byte: '\t', '\n', '\v', '\f', '\r', ' '.
IsSpace(c) == c \in {9, 10, 11, 12, 13, 32}

RECURSIVE TrimLeft(_)
TrimLeft(s) == IF s # <<>> /\ IsSpace(Head(s)) THEN TrimLeft(Tail(s)) ELSE s

RECURSIVE TrimRight(_)
TrimRight(s) ==
    IF s # <<>> /\ IsSpace(s[Len(s)]) THEN TrimRight(SubSeq(s, 1, Len(s) - 1)) ELSE s

\* strings.TrimSpace: s without its leading and trailing white space.
TrimSpace(s) == TrimRight(TrimLeft(s))

\* ------------------------------------------------------------- getAPIURL

IsAlnum(c) == (c >= 48 /\ c <= 57) \/ (c >= 65 /\ c <= 90) \/ (c >= 97 /\ c <= 122)

\* net/url shouldEscape(c, encodeQueryComponent): everything but the
\* unreserved characters (letters, digits, '-', '_', '.', '~') is escaped.
shouldEscape(c) == ~(IsAlnum(c) \/ c \in {45, 95, 46, 126})

\* A digit of "0123456789ABCDEF".
UpperHex(d) == IF d < 10 THEN 48 + d ELSE 55 + d

\* One byte as url.QueryEscape writes it: ' ' as '+', an escaped byte as %XX.
EscapeByte(c) ==
    IF c = 32 THEN <<43>>
    ELSE IF shouldEscape(c) THEN <<37, UpperHex(c \div 16), UpperHex(c % 16)>>
    ELSE <<c>>

\* url.QueryEscape(s).
QueryEscape(s) == Concat([i \in 1..Len(s) |-> EscapeByte(s[i])])

RECURSIVE Digits(_)
Digits(n) == IF n < 10 THEN <<48 + n>> ELSE Digits(n \div 10) \o <<48 + (n % 10)>>

\* fmt's %d of an int.
FmtInt(n) == IF n < 0 THEN <<45>> \o Digits(0 - n) ELSE Digits(n)

\* "https://api.duckduckgo.com/?q="
URLPrefix ==
    <<104, 116, 116, 112, 115, 58, 47, 47, 97, 112, 105, 46, 100, 117, 99, 107,
      100, 117, 99, 107, 103, 111, 46, 99, 111, 109, 47, 63, 113, 61>>

\* "&format="
AmpFormat == <<38, 102, 111, 114, 109, 97, 116, 61>>
\* "&pretty="
AmpPretty == <<38, 112, 114, 101, 116, 116, 121, 61>>
\* "&no_redirect="
AmpNoRedirect == <<38, 110, 111, 95, 114, 101, 100, 105, 114, 101, 99, 116, 61>>
\* "&no_html="
AmpNoHTML == <<38, 110, 111, 95, 104, 116, 109, 108, 61>>
\* "&skip_disambig="
AmpSkipDisambig ==
    <<38, 115, 107, 105, 112, 95, 100, 105, 115, 97, 109, 98, 105, 103, 61>>
\* "&t=duckduckgo-answers"
AmpClient ==
    <<38, 116, 61, 100, 117, 99, 107, 100, 117, 99, 107, 103, 111, 45, 97, 110,
      115, 119, 101, 114, 115>>

\* A getAPIURL that leaves the query as it is (no url.QueryEscape).
getAPIURL_NoEscape(queryString, options) ==
    Concat(<<URLPrefix, queryString,
             AmpFormat, options.Format,
             AmpPretty, FmtInt(options.Pretty),
             AmpNoRedirect, FmtInt(options.NoRedirect),
             AmpNoHTML, FmtInt(options.NoHTML),
             AmpSkipDisambig, FmtInt(options.SkipDisambig),
             AmpClient>>)

\* A getAPIURL whose format string drops the pretty parameter's value.
getAPIURL_NoPretty(queryString, options) ==
    Concat(<<URLPrefix, QueryEscape(queryString),
             AmpFormat, options.Format,
             AmpPretty,
             AmpNoRedirect, FmtInt(options.NoRedirect),
             AmpNoHTML, FmtInt(options.NoHTML),
             AmpSkipDisambig, FmtInt(options.SkipDisambig),
             AmpClient>>)

\* getAPIURL(queryString, options): the escaped query and the options put
\* into the format string of fmt.Sprintf.
getAPIURL(queryString, options) ==
    Concat(<<URLPrefix, QueryEscape(queryString),
             AmpFormat, options.Format,
             AmpPretty, FmtInt(options.Pretty),
             AmpNoRedirect, FmtInt(options.NoRedirect),
             AmpNoHTML, FmtInt(options.NoHTML),
             AmpSkipDisambig, FmtInt(options.SkipDisambig),
             AmpClient>>)

\* "json"
FormatJSON == <<106, 115, 111, 110>>
\* "xml"
FormatXML == <<120, 109, 108>>

\* The Options main builds (queryOptions).
MainOptions ==
    [Format |-> FormatJSON, Pretty |-> 1, NoRedirect |-> 1, NoHTML |-> 1,
     SkipDisambig |-> 1]

\* The zero value of Options.
ZeroOptions ==
    [Format |-> <<>>, Pretty |-> 0, NoRedirect |-> 0, NoHTML |-> 0,
     SkipDisambig |-> 0]

\* ------------------------------------------------------- responseToString

\* bufio's dropCR: a line without its one trailing '\r'.
dropCR(line) ==
    IF line # <<>> /\ line[Len(line)] = CR THEN SubSeq(line, 1, Len(line) - 1)
    ELSE line

RECURSIVE ScanLines(_)
\* The tokens bufio.Scanner yields with its default split function,
\* bufio.ScanLines: each line of the data without its terminator, the last,
\* unterminated line too when it is not empty.
ScanLines(data) ==
    IF data = <<>> THEN <<>>
    ELSE LET i == IndexByte(data, LF)
         IN  IF i > 0
             THEN <<dropCR(SubSeq(data, 1, i - 1))>>
                      \o ScanLines(SubSeq(data, i + 1, Len(data)))
             ELSE <<dropCR(data)>>

\* responseToString on a body that is read without error: the slice starts
\* as one empty string (make([]string, 1)), every scanned line is appended and
\* the slice is joined with "".
responseToString(body) == Concat(<<<<>>>> \o ScanLines(body))

\* ------------------------------------------------------ unmarshalResponse
\* encoding/json on the JSON the model's server sends: objects, arrays,
\* strings with the two-character escapes, numbers of digits, true, false and
\* null.  (\uXXXX escapes and fractions occur in no body of the model.)

\* The result of a failed parse.
ParseFail == [ok |-> FALSE, v |-> [k |-> "null"], i |-> 0]

RECURSIVE SkipWS(_, _)
\* The first index at or after i that holds no JSON white space.
SkipWS(s, i) ==
    IF i <= Len(s) /\ s[i] \in {32, 9, 10, 13} THEN SkipWS(s, i + 1) ELSE i

\* The byte a two-character escape \c stands for; -1 when \c is no escape.
EscapeOf(c) ==
    CASE c = 34 -> 34
      [] c = 92 -> 92
      [] c = 47 -> 47
      [] c = 98 -> 8
      [] c = 102 -> 12
      [] c = 110 -> 10
      [] c = 114 -> 13
      [] c = 116 -> 9
      [] OTHER -> 0 - 1

RECURSIVE ScanString(_, _, _)
\* A string literal whose opening quote is at i - 1: a control character
\* (below 0x20, a raw line break among them) in the literal is a syntax error.
ScanString(s, i, acc) ==
    IF i > Len(s) THEN ParseFail
    ELSE IF s[i] = 34 THEN [ok |-> TRUE, v |-> [k |-> "str", s |-> acc], i |-> i + 1]
    ELSE IF s[i] = 92
         THEN IF i + 1 <= Len(s) /\ EscapeOf(s[i + 1]) >= 0
              THEN ScanString(s, i + 2, Append(acc, EscapeOf(s[i + 1])))
              ELSE ParseFail
    ELSE IF s[i] < 32 THEN ParseFail
    ELSE ScanString(s, i + 1, Append(acc, s[i]))

\* The literal word (null, true, false) at i.
ScanLiteral(s, i, word, val) ==
    IF i + Len(word) - 1 <= Len(s) /\ SubSeq(s, i, i + Len(word) - 1) = word
    THEN [ok |-> TRUE, v |-> val, i |-> i + Len(word)]
    ELSE ParseFail

RECURSIVE ScanDigits(_, _)
ScanDigits(s, i) ==
    IF i <= Len(s) /\ s[i] >= 48 /\ s[i] <= 57 THEN ScanDigits(s, i + 1) ELSE i

\* An integer at i: digits, without a leading zero before another digit.
ScanNumber(s, i) ==
    LET j == ScanDigits(s, i)
    IN  IF j = i \/ (s[i] = 48 /\ j > i + 1) THEN ParseFail
        ELSE [ok |-> TRUE, v |-> [k |-> "num"], i |-> j]

RECURSIVE ParseValue(_, _), ParseMembers(_, _, _), ParseElements(_, _, _)
\* One JSON value starting at or after i: the value and the index after it.
ParseValue(s, i0) ==
    LET i == SkipWS(s, i0)
    IN  IF i > Len(s) THEN ParseFail
        ELSE CASE s[i] = 34 -> ScanString(s, i + 1, <<>>)
               [] s[i] = 123 ->
                    LET j == SkipWS(s, i + 1)
                    IN  IF j <= Len(s) /\ s[j] = 125
                        THEN [ok |-> TRUE, v |-> [k |-> "obj", m |-> <<>>], i |-> j + 1]
                        ELSE ParseMembers(s, j, <<>>)
               [] s[i] = 91 ->
                    LET j == SkipWS(s, i + 1)
                    IN  IF j <= Len(s) /\ s[j] = 93
                        THEN [ok |-> TRUE, v |-> [k |-> "arr", a |-> <<>>], i |-> j + 1]
                        ELSE ParseElements(s, j, <<>>)
               [] s[i] = 110 -> ScanLiteral(s, i, <<110, 117, 108, 108>>, [k |-> "null"])
               [] s[i] = 116 -> ScanLiteral(s, i, <<116, 114, 117, 101>>, [k |-> "bool"])
               [] s[i] = 102 ->
                    ScanLiteral(s, i, <<102, 97, 108, 115, 101>>, [k |-> "bool"])
               [] s[i] >= 48 /\ s[i] <= 57 -> ScanNumber(s, i)
               [] OTHER -> ParseFail

\* The members of an object after its '{': "key" : value, then ',' or '}'.
ParseMembers(s, i0, acc) ==
    LET i == SkipWS(s, i0)
    IN  IF i > Len(s) \/ s[i] # 34 THEN ParseFail
        ELSE LET key == ScanString(s, i + 1, <<>>)
                 c == SkipWS(s, key.i)
             IN  IF ~key.ok \/ c > Len(s) \/ s[c] # 58 THEN ParseFail
                 ELSE LET val == ParseValue(s, c + 1)
                          e == SkipWS(s, val.i)
                          more == Append(acc, [key |-> key.v.s, val |-> val.v])
                      IN  IF ~val.ok \/ e > Len(s) THEN ParseFail
                          ELSE IF s[e] = 44 THEN ParseMembers(s, e + 1, more)
                          ELSE IF s[e] = 125
                               THEN [ok |-> TRUE, v |-> [k |-> "obj", m |-> more],
                                     i |-> e + 1]
                          ELSE ParseFail

\* The elements of an array after its '[': value, then ',' or ']'.
ParseElements(s, i0, acc) ==
    LET val == ParseValue(s, i0)
        e == SkipWS(s, val.i)
        more == Append(acc, val.v)
    IN  IF ~val.ok \/ e > Len(s) THEN ParseFail
        ELSE IF s[e] = 44 THEN ParseElements(s, e + 1, more)
        ELSE IF s[e] = 93
             THEN [ok |-> TRUE, v |-> [k |-> "arr", a |-> more], i |-> e + 1]
        ELSE ParseFail

\* json.Unmarshal's first pass (checkValid): one value and then only white
\* space.
ParseJSON(s) ==
    LET r == ParseValue(s, 1)
    IN  IF r.ok /\ SkipWS(s, r.i) > Len(s) THEN r ELSE ParseFail

\* "AbstractText"
KeyAbstractText == <<65, 98, 115, 116, 114, 97, 99, 116, 84, 101, 120, 116>>
\* "AbstractURL"
KeyAbstractURL == <<65, 98, 115, 116, 114, 97, 99, 116, 85, 82, 76>>
\* "RelatedTopics"
KeyRelatedTopics == <<82, 101, 108, 97, 116, 101, 100, 84, 111, 112, 105, 99, 115>>
\* "FirstURL"
KeyFirstURL == <<70, 105, 114, 115, 116, 85, 82, 76>>
\* "Text"
KeyText == <<84, 101, 120, 116>>

\* The zero value of RelatedTopic.
ZeroTopic == [FirstURL |-> <<>>, Text |-> <<>>]

\* The zero value of Response (jsonData := Response{}).
ZeroResponse == [AbstractText |-> <<>>, AbstractURL |-> <<>>, RelatedTopics |-> <<>>]

\* ASCII case folding: encoding/json matches an object key to a struct
\* field's name without regard to case.
FoldCase(s) == [i \in 1..Len(s) |-> IF s[i] >= 65 /\ s[i] <= 90 THEN s[i] + 32 ELSE s[i]]

FieldIs(key, name) == FoldCase(key) = FoldCase(name)

\* A JSON value decoded into the string field f of acc.v: a string sets it,
\* null leaves it, anything else is an UnmarshalTypeError.
SetString(acc, f, val) ==
    IF val.k = "str" THEN [acc EXCEPT !.v[f] = val.s]
    ELSE IF val.k = "null" THEN acc
    ELSE [acc EXCEPT !.err = TRUE]

RECURSIVE DecodeTopicFields(_, _)
\* The members of an object decoded into a RelatedTopic; unknown keys are
\* skipped.
DecodeTopicFields(m, acc) ==
    IF m = <<>> THEN acc
    ELSE LET key == Head(m).key
             val == Head(m).val
         IN  DecodeTopicFields(Tail(m),
                 IF FieldIs(key, KeyFirstURL) THEN SetString(acc, "FirstURL", val)
                 ELSE IF FieldIs(key, KeyText) THEN SetString(acc, "Text", val)
                 ELSE acc)

\* One element of the RelatedTopics array.
DecodeTopic(val) ==
    IF val.k = "obj" THEN DecodeTopicFields(val.m, [err |-> FALSE, v |-> ZeroTopic])
    ELSE IF val.k = "null" THEN [err |-> FALSE, v |-> ZeroTopic]
    ELSE [err |-> TRUE, v |-> ZeroTopic]

\* A JSON value decoded into the RelatedTopics field: an array replaces the
\* slice, element by element in order; null makes it nil.
SetTopics(acc, val) ==
    IF val.k = "arr"
    THEN LET ts == [i \in 1..Len(val.a) |-> DecodeTopic(val.a[i])]
         IN  [err |-> acc.err \/ \E i \in 1..Len(ts) : ts[i].err,
              v |-> [acc.v EXCEPT !.RelatedTopics = [i \in 1..Len(ts) |-> ts[i].v]]]
    ELSE IF val.k = "null" THEN [acc EXCEPT !.v.RelatedTopics = <<>>]
    ELSE [acc EXCEPT !.err = TRUE]

RECURSIVE DecodeResponseFields(_, _)
\* The members of an object decoded into a Response.
DecodeResponseFields(m, acc) ==
    IF m = <<>> THEN acc
    ELSE LET key == Head(m).key
             val == Head(m).val
         IN  DecodeResponseFields(Tail(m),
                 IF FieldIs(key, KeyAbstractText) THEN SetString(acc, "AbstractText", val)
                 ELSE IF FieldIs(key, KeyAbstractURL)
                      THEN SetString(acc, "AbstractURL", val)
                 ELSE IF FieldIs(key, KeyRelatedTopics) THEN SetTopics(acc, val)
                 ELSE acc)

\* unmarshalResponse(jsonInput): json.Unmarshal into a Response{}; err is
\* the case in which the function panics.
unmarshalResponse(jsonInput) ==
    LET p == ParseJSON(jsonInput)
    IN  IF ~p.ok THEN [err |-> TRUE, v |-> ZeroResponse]
        ELSE IF p.v.k = "obj"
             THEN DecodeResponseFields(p.v.m, [err |-> FALSE, v |-> ZeroResponse])
        ELSE IF p.v.k = "null" THEN [err |-> FALSE, v |-> ZeroResponse]
        ELSE [err |-> TRUE, v |-> ZeroResponse]

\* ---------------------------------------------------------- printResponse

\* TerminalColors: the escape sequence of each colour name.
TerminalColors ==
    [Reset |-> "\\033[0m", Red |-> "\\033[31m", Green |-> "\\033[33m",
     Blue |-> "\\033[34m", White |-> "\\033[37m", Yellow |-> "\\033[33m"]

\* One call of fmt.Print, fmt.Println or fmt.Printf on standard output: the
\* colour code given as first operand ("" when there is none), the literal
\* text or format, and the string put into it.
Write(call, color, text, arg) ==
    [call |-> call, color |-> color, text |-> text, arg |-> arg]

\* The two lines printResponse prints for one RelatedTopic.
TopicLines(topic) ==
    <<Write("Println", TerminalColors["Blue"], "\t%s", topic.FirstURL),
      Write("Println", TerminalColors["White"], "\t%s\n", topic.Text)>>

\* A printResponse without the test of AbstractURL.
printResponse_AlwaysInfo(input) ==
    <<Write("Printf", "", "\n %s \n \n", input.AbstractText),
      Write("Println", TerminalColors["Green"], "More info:", <<>>),
      Write("Println", TerminalColors["Blue"], "\t%s\n", input.AbstractURL),
      Write("Println", TerminalColors["Green"], "Related topics: ", <<>>)>>
    \o Concat([key \in 1..Len(input.RelatedTopics) |->
                  TopicLines(input.RelatedTopics[key])])
    \o <<Write("Print", TerminalColors["Reset"], "", <<>>)>>

\* printResponse(input): the writes in the order the function makes them.
printResponse(input) ==
    <<Write("Printf", "", "\n %s \n \n", input.AbstractText)>>
    \o (IF input.AbstractURL # <<>>
        THEN <<Write("Println", TerminalColors["Green"], "More info:", <<>>),
               Write("Println", TerminalColors["Blue"], "\t%s\n", input.AbstractURL)>>
        ELSE <<>>)
    \o <<Write("Println", TerminalColors["Green"], "Related topics: ", <<>>)>>
    \o Concat([key \in 1..Len(input.RelatedTopics) |->
                  TopicLines(input.RelatedTopics[key])])
    \o <<Write("Print", TerminalColors["Reset"], "", <<>>)>>

\* ------------------------------------------------- searchPrompt and main

\* What inputReader.ReadString('\n') can return: the bytes up to and with
\* the first '\n' and no error, or, when standard input ends first, the bytes
\* read so far and io.EOF.
ReadResult(data, eof) == [data |-> data, eof |-> eof]

\* A searchPrompt that tests the line itself for "", not its trimmed form.
searchPrompt_NoTrim(read) ==
    IF read.eof THEN [userInput |-> <<>>, err |-> "EOF"]
    ELSE IF read.data = <<>> THEN [userInput |-> <<>>, err |-> "Invalid input"]
    ELSE [userInput |-> read.data, err |-> "nil"]

\* searchPrompt() after its read: the pair (string, error) it returns.
searchPrompt(read) ==
    IF read.eof THEN [userInput |-> <<>>, err |-> "EOF"]
    ELSE IF TrimSpace(read.data) = <<>>
         THEN [userInput |-> <<>>, err |-> "Invalid input"]
    ELSE [userInput |-> read.data, err |-> "nil"]

\* A main that tests the search flag before the help flag.
afterParse_SearchFirst(help, search) ==
    IF search # <<>> THEN "getAPIURL"
    ELSE IF help THEN "usage"
    ELSE "searchPrompt"

\* main after flag.Parse: the help flag is tested first, then the search
\* flag; with neither, the prompt loop is entered.
afterParse(help, search) ==
    IF help THEN "usage"
    ELSE IF search # <<>> THEN "getAPIURL"
    ELSE "searchPrompt"

\* A loop body that returns from main on an error of searchPrompt.
afterPrompt_ReturnOnError(e) == IF e # "nil" THEN "exited" ELSE "getAPIURL"

\* The loop body after searchPrompt: on an error, print it and continue;
\* otherwise call processAPIRequest.
afterPrompt(e) == IF e # "nil" THEN "searchPrompt" ELSE "getAPIURL"

\* A main without os.Exit(1) after the one-shot request.
afterRequest_NoExit(search) == "searchPrompt"

\* Where processAPIRequest returns to: the call of the one-shot branch is
\* followed by os.Exit(1), the call of the loop body by the next iteration.
afterRequest(search) == IF search # <<>> THEN "exited" ELSE "searchPrompt"

\* The status the parent sees for os.Exit(code): its low eight bits.
ExitStatus(code) == code % 256

\* -------------------------------------------------------- the environment
\* What the program reads: the command line, standard input and the API
\* server's answers.

\* The bytes of a line typed at the prompt: ' ' and 'a'.
LineBytes == {32, 97}

\* The results of one inputReader.ReadString('\n'): a line ended by "\n" or
\* by "\r\n", or the end of standard input after the bytes of an unfinished
\* line.  searchPrompt makes a new bufio.Reader at every call, so nothing a
\* read has buffered reaches the next one: each read is a choice of its own.
StdinReads ==
    {ReadResult(c \o <<LF>>, FALSE) : c \in Strings(LineBytes, MaxLineLen)}
        \cup {ReadResult(c \o <<CR, LF>>, FALSE) : c \in Strings(LineBytes, MaxLineLen)}
        \cup {ReadResult(c, TRUE) : c \in Strings(LineBytes, MaxLineLen)}

\* The bytes of the -s argument: ' ', '&' and 'a'.
ArgBytes == {32, 38, 97}

\* The values flag.Parse can give flagSearch ("" when -s is absent).
ArgStrings == Strings(ArgBytes, MaxArgLen)

\* The related topics the server knows: ("http://a", "A"), ("http://b", "B").
ServerTopics ==
    {[FirstURL |-> <<104, 116, 116, 112, 58, 47, 47, 97>>, Text |-> <<65>>],
     [FirstURL |-> <<104, 116, 116, 112, 58, 47, 47, 98>>, Text |-> <<66>>]}

\* The answers the server has: the abstract "X", with or without its source
\* URL "http://a", and up to MaxTopics related topics in any order.
ServerResponses ==
    {[AbstractText |-> <<88>>, AbstractURL |-> u, RelatedTopics |-> ts] :
        u \in {<<>>, <<104, 116, 116, 112, 58, 47, 47, 97>>},
        ts \in UNION {[1..n -> ServerTopics] : n \in 0..MaxTopics}}

\* A JSON string literal of a string that needs no escape.
Quoted(s) == <<34>> \o s \o <<34>>

\* {"FirstURL":"...","Text":"..."}
EncodeTopic(topic) ==
    <<123>> \o <<34, 70, 105, 114, 115, 116, 85, 82, 76, 34, 58>> \o Quoted(topic.FirstURL)
        \o <<44>> \o <<34, 84, 101, 120, 116, 34, 58>> \o Quoted(topic.Text) \o <<125>>

RECURSIVE JoinComma(_)
JoinComma(ss) ==
    IF ss = <<>> THEN <<>>
    ELSE IF Len(ss) = 1 THEN ss[1]
    ELSE ss[1] \o <<44>> \o JoinComma(Tail(ss))

\* The server's pretty-printed JSON (pretty=1) of an answer: one member per
\* line.
EncodeResponse(r) ==
    <<123, LF>>
        \o <<34, 65, 98, 115, 116, 114, 97, 99, 116, 84, 101, 120, 116, 34, 58>>
        \o Quoted(r.AbstractText) \o <<44, LF>>
        \o <<34, 65, 98, 115, 116, 114, 97, 99, 116, 85, 82, 76, 34, 58>>
        \o Quoted(r.AbstractURL) \o <<44, LF>>
        \o <<34, 82, 101, 108, 97, 116, 101, 100, 84, 111, 112, 105, 99, 115, 34, 58, 91>>
        \o JoinComma([i \in 1..Len(r.RelatedTopics) |-> EncodeTopic(r.RelatedTopics[i])])
        \o <<93, LF, 125, LF>>

\* An empty body.
\* ''
BodyEmpty ==
    <<>>

\* An error page instead of JSON.
\* '<html>'
BodyHTML ==
    <<60, 104, 116, 109, 108, 62>>

\* A body cut off in the middle.
\* '{"AbstractText":"X","RelatedTopics":['
BodyTruncated ==
    <<123, 34, 65, 98, 115, 116, 114, 97, 99, 116, 84, 101, 120, 116, 34,
     58, 34, 88, 34, 44, 34, 82, 101, 108, 97, 116, 101, 100, 84, 111, 112,
     105, 99, 115, 34, 58, 91>>

\* RelatedTopics that is a string, not an array.
\* '{"AbstractText":"X","RelatedTopics":"X"}'
BodyTopicsNotArray ==
    <<123, 34, 65, 98, 115, 116, 114, 97, 99, 116, 84, 101, 120, 116, 34,
     58, 34, 88, 34, 44, 34, 82, 101, 108, 97, 116, 101, 100, 84, 111, 112,
     105, 99, 115, 34, 58, 34, 88, 34, 125>>

\* AbstractText that is a number.
\* '{"AbstractText":1}'
BodyTextNumber ==
    <<123, 34, 65, 98, 115, 116, 114, 97, 99, 116, 84, 101, 120, 116, 34,
     58, 49, 125>>

\* A RelatedTopics element that is a string.
\* '{"RelatedTopics":["X"]}'
BodyTopicNotObject ==
    <<123, 34, 82, 101, 108, 97, 116, 101, 100, 84, 111, 112, 105, 99, 115,
     34, 58, 91, 34, 88, 34, 93, 125>>

\* An array where the object is expected.
\* '[]'
BodyArray ==
    <<91, 93>>

\* The JSON value null.
\* 'null'
BodyNull ==
    <<110, 117, 108, 108>>

\* An object without members.
\* '{}'
BodyEmptyObject ==
    <<123, 125>>

\* No answer: every field empty.
\* '{"AbstractText":"","AbstractURL":"","RelatedTopics":[]}'
BodyEmptyText ==
    <<123, 34, 65, 98, 115, 116, 114, 97, 99, 116, 84, 101, 120, 116, 34,
     58, 34, 34, 44, 34, 65, 98, 115, 116, 114, 97, 99, 116, 85, 82, 76, 34,
     58, 34, 34, 44, 34, 82, 101, 108, 97, 116, 101, 100, 84, 111, 112, 105,
     99, 115, 34, 58, 91, 93, 125>>

\* A string literal with a raw line feed in it (between the two X).
\* '{"AbstractText":"X\nX"}'
BodyRawLF ==
    <<123, 34, 65, 98, 115, 116, 114, 97, 99, 116, 84, 101, 120, 116, 34,
     58, 34, 88, 10, 88, 34, 125>>

\* The literal null broken by a line feed.
\* '{"AbstractURL":nu\nll}'
BodySplitLiteral ==
    <<123, 34, 65, 98, 115, 116, 114, 97, 99, 116, 85, 82, 76, 34, 58, 110,
     117, 10, 108, 108, 125>>

\* Lines ended by CR LF.
\* '{\r\n"AbstractText":"X",\r\n"AbstractURL":"http://a"\r\n}\r\n'
BodyCRLF ==
    <<123, 13, 10, 34, 65, 98, 115, 116, 114, 97, 99, 116, 84, 101, 120,
     116, 34, 58, 34, 88, 34, 44, 13, 10, 34, 65, 98, 115, 116, 114, 97, 99,
     116, 85, 82, 76, 34, 58, 34, 104, 116, 116, 112, 58, 47, 47, 97, 34,
     13, 10, 125, 13, 10>>

\* Fields the schema does not name, a key in lower case, a topic group and a null topic.
\* '{"Heading":"X","abstracttext":"X","RelatedTopics":[{"Name":"X","Topics":[]},null]}'
BodyUnknownFields ==
    <<123, 34, 72, 101, 97, 100, 105, 110, 103, 34, 58, 34, 88, 34, 44, 34,
     97, 98, 115, 116, 114, 97, 99, 116, 116, 101, 120, 116, 34, 58, 34, 88,
     34, 44, 34, 82, 101, 108, 97, 116, 101, 100, 84, 111, 112, 105, 99,
     115, 34, 58, 91, 123, 34, 78, 97, 109, 101, 34, 58, 34, 88, 34, 44, 34,
     84, 111, 112, 105, 99, 115, 34, 58, 91, 93, 125, 44, 110, 117, 108,
     108, 93, 125>>

\* Escapes in a string literal, and a null field.
\* '{"AbstractText":"X\\nX\\"","AbstractURL":null}'
BodyEscapes ==
    <<123, 34, 65, 98, 115, 116, 114, 97, 99, 116, 84, 101, 120, 116, 34,
     58, 34, 88, 92, 110, 88, 92, 34, 34, 44, 34, 65, 98, 115, 116, 114, 97,
     99, 116, 85, 82, 76, 34, 58, 110, 117, 108, 108, 125>>

\* The bodies of other shapes a response can have.
OtherBodies ==
    {BodyEmpty, BodyHTML, BodyTruncated, BodyTopicsNotArray, BodyTextNumber,
     BodyTopicNotObject, BodyArray, BodyNull, BodyEmptyObject, BodyEmptyText,
     BodyRawLF, BodySplitLiteral, BodyCRLF, BodyUnknownFields, BodyEscapes}

\* Every response body of the model.
Bodies == {EncodeResponse(r) : r \in ServerResponses} \cup OtherBodies

\* The Options values getAPIURL is given when it is checked as a function.
OptionValues ==
    {[Format |-> f, Pretty |-> p, NoRedirect |-> nr, NoHTML |-> nh, SkipDisambig |-> sd] :
        f \in {FormatJSON, FormatXML}, p \in {0 - 1, 0, 1, 10},
        nr \in {0, 1}, nh \in {0, 1}, sd \in {0, 1}}

\* The bytes of a query getAPIURL is given when it is checked as a function:
\* LF ' ' '#' '%' '&' '+' '/' '=' '?' 'a' '~' and the two bytes of U+00E9.
QueryBytes == {10, 32, 35, 37, 38, 43, 47, 61, 63, 97, 126, 195, 169}

\* ------------------------------------------------------------------ state

VARIABLES
    pc,             \* where the program is: the function about to run
    flagHelp,       \* *flagHelp
    flagSearch,     \* *flagSearch
    queryOptions,   \* main's queryOptions
    line,           \* searchPrompt: what ReadString returned (query, err)
    userInput,      \* main's loop body: userInput
    err,            \* main's loop body: err ("nil" when there is none)
    query,          \* processAPIRequest: query
    queryURL,       \* processAPIRequest: queryURL
    apiResponse,    \* processAPIRequest: apiResponse, with its body's state
    stringAnswer,   \* processAPIRequest: stringAnswer
    parsedResponse, \* processAPIRequest: parsedResponse
    stdout,         \* the writes to standard output since the latest prompt
    exitCause,      \* "none" while running; how the process ended
    exitCode,       \* the exit status of the ended process
    prompts,        \* how many times searchPrompt has run
    calls,          \* how many times each function has been called
    prevBuilt       \* the query and URL of the request before the current one

vars ==
    <<pc, flagHelp, flagSearch, queryOptions, line, userInput, err, query, queryURL,
      apiResponse, stringAnswer, parsedResponse, stdout, exitCause, exitCode,
      prompts, calls, prevBuilt>>

\* No response: apiResponse before queryAPI has returned one.
NoResponse == [received |-> FALSE, Body |-> <<>>, closed |-> FALSE]

\* No line: searchPrompt has not read.
NoRead == ReadResult(<<>>, FALSE)

\* No earlier request.
NoneBuilt == [query |-> <<>>, url |-> <<>>]

\* The process at the entry of main: the flags hold their defaults.
Init ==
    /\ pc = "main"
    /\ flagHelp = FALSE
    /\ flagSearch = <<>>
    /\ queryOptions = ZeroOptions
    /\ line = NoRead
    /\ userInput = <<>>
    /\ err = "nil"
    /\ query = <<>>
    /\ queryURL = <<>>
    /\ apiResponse = NoResponse
    /\ stringAnswer = <<>>
    /\ parsedResponse = ZeroResponse
    /\ stdout = <<>>
    /\ exitCause = "none"
    /\ exitCode = 0
    /\ prompts = 0
    /\ calls = [getAPIURL |-> 0, queryAPI |-> 0, printResponse |-> 0]
    /\ prevBuilt = NoneBuilt

\* The whole process ends by a panic: the Go runtime exits with status 2.
Panic ==
    /\ pc' = "exited"
    /\ exitCause' = "panic"
    /\ exitCode' = 2

\* main up to its dispatch: queryOptions is built, flag.Parse sets the
\* flags from the command line, and the flags decide what runs next.
Main ==
    /\ pc = "main"
    /\ queryOptions' = MainOptions
    /\ \E help \in BOOLEAN, search \in ArgStrings :
          /\ flagHelp' = help
          /\ flagSearch' = search
          /\ pc' = afterParse(help, search)
          /\ query' = IF afterParse(help, search) = "getAPIURL" THEN search ELSE <<>>
    /\ UNCHANGED <<line, userInput, err, queryURL, apiResponse, stringAnswer,
                   parsedResponse, stdout, exitCause, exitCode, prompts, calls,
                   prevBuilt>>

\* flag.Parse on a command line it rejects (an undefined flag, -s without a
\* value): with flag.ExitOnError it prints the error and the usage and exits
\* with status 2.  The flags before the bad one are set.
MainBadFlags ==
    /\ pc = "main"
    /\ queryOptions' = MainOptions
    /\ \E help \in BOOLEAN, search \in ArgStrings :
          /\ flagHelp' = help
          /\ flagSearch' = search
    /\ stdout' = Append(stdout, Write("PrintDefaults", "", "usage", <<>>))
    /\ pc' = "exited"
    /\ exitCause' = "flag.Parse"
    /\ exitCode' = 2
    /\ UNCHANGED <<line, userInput, err, query, queryURL, apiResponse, stringAnswer,
                   parsedResponse, prompts, calls, prevBuilt>>

\* The help branch of main: flag.PrintDefaults() and os.Exit(-1).
Usage ==
    /\ pc = "usage"
    /\ stdout' = Append(stdout, Write("PrintDefaults", "", "usage", <<>>))
    /\ pc' = "exited"
    /\ exitCause' = "os.Exit"
    /\ exitCode' = ExitStatus(0 - 1)
    /\ UNCHANGED <<flagHelp, flagSearch, queryOptions, line, userInput, err, query,
                   queryURL, apiResponse, stringAnswer, parsedResponse, prompts,
                   calls, prevBuilt>>

\* One call of searchPrompt from the loop of main: the prompt is printed, a
\* line is read and the function returns into userInput and err.
SearchPrompt ==
    /\ pc = "searchPrompt"
    /\ prompts < MaxPrompts
    /\ \E read \in StdinReads :
          /\ line' = read
          /\ userInput' = searchPrompt(read).userInput
          /\ err' = searchPrompt(read).err
    /\ stdout' = <<Write("Print", "", "\nSearch: ", <<>>)>>
    /\ prompts' = prompts + 1
    /\ pc' = "loopBody"
    /\ UNCHANGED <<flagHelp, flagSearch, queryOptions, query, queryURL, apiResponse,
                   stringAnswer, parsedResponse, exitCause, exitCode, calls,
                   prevBuilt>>

\* The rest of the loop body: an error is printed and the loop continues,
\* otherwise processAPIRequest is called with userInput.
LoopBody ==
    /\ pc = "loopBody"
    /\ pc' = afterPrompt(err)
    /\ stdout' = IF err # "nil" THEN Append(stdout, Write("Println", "", err, <<>>))
                 ELSE stdout
    /\ query' = IF afterPrompt(err) = "getAPIURL" THEN userInput ELSE <<>>
    /\ exitCause' = IF afterPrompt(err) = "exited" THEN "return" ELSE exitCause
    /\ line' = NoRead
    /\ userInput' = <<>>
    /\ err' = "nil"
    /\ UNCHANGED <<flagHelp, flagSearch, queryOptions, queryURL, apiResponse,
                   stringAnswer, parsedResponse, exitCode, prompts, calls, prevBuilt>>

\* processAPIRequest: queryURL := getAPIURL(query, options).
GetAPIURL ==
    /\ pc = "getAPIURL"
    /\ queryURL' = getAPIURL(query, queryOptions)
    /\ calls' = [calls EXCEPT !.getAPIURL = @ + 1]
    /\ pc' = "queryAPI"
    /\ UNCHANGED <<flagHelp, flagSearch, queryOptions, line, userInput, err, query,
                   apiResponse, stringAnswer, parsedResponse, stdout, exitCause,
                   exitCode, prompts, prevBuilt>>

\* processAPIRequest: apiResponse := queryAPI(queryURL).  http.Get returns a
\* response, whose body is open, or an error, on which queryAPI panics.
QueryAPI ==
    /\ pc = "queryAPI"
    /\ calls' = [calls EXCEPT !.queryAPI = @ + 1]
    /\ \/ /\ \E body \in Bodies :
                apiResponse' = [received |-> TRUE, Body |-> body, closed |-> FALSE]
          /\ pc' = "responseToString"
          /\ UNCHANGED <<exitCause, exitCode>>
       \/ /\ Panic
          /\ UNCHANGED apiResponse
    /\ UNCHANGED <<flagHelp, flagSearch, queryOptions, line, userInput, err, query,
                   queryURL, stringAnswer, parsedResponse, stdout, prompts, prevBuilt>>

\* processAPIRequest: stringAnswer := responseToString(apiResponse).  The
\* scanner reads the body to its end, the body is closed and the lines are
\* joined; or the scanner stops on an error (the connection breaks, a line is
\* longer than the scanner's buffer) and the function panics before
\* response.Body.Close().
ResponseToString ==
    /\ pc = "responseToString"
    /\ \/ /\ stringAnswer' = responseToString(apiResponse.Body)
          /\ apiResponse' = [apiResponse EXCEPT !.closed = TRUE]
          /\ pc' = "unmarshalResponse"
          /\ UNCHANGED <<exitCause, exitCode>>
       \/ /\ Panic
          /\ UNCHANGED <<stringAnswer, apiResponse>>
    /\ UNCHANGED <<flagHelp, flagSearch, queryOptions, line, userInput, err, query,
                   queryURL, parsedResponse, stdout, prompts, calls, prevBuilt>>

\* processAPIRequest: parsedResponse := unmarshalResponse(stringAnswer),
\* which panics when json.Unmarshal returns an error.
UnmarshalResponse ==
    /\ pc = "unmarshalResponse"
    /\ \/ /\ ~unmarshalResponse(stringAnswer).err
          /\ parsedResponse' = unmarshalResponse(stringAnswer).v
          /\ pc' = "printResponse"
          /\ UNCHANGED <<exitCause, exitCode>>
       \/ /\ unmarshalResponse(stringAnswer).err
          /\ Panic
          /\ UNCHANGED parsedResponse
    /\ UNCHANGED <<flagHelp, flagSearch, queryOptions, line, userInput, err, query,
                   queryURL, apiResponse, stringAnswer, stdout, prompts, calls,
                   prevBuilt>>

\* processAPIRequest: printResponse(parsedResponse).
PrintResponse ==
    /\ pc = "printResponse"
    /\ stdout' = stdout \o printResponse(parsedResponse)
    /\ calls' = [calls EXCEPT !.printResponse = @ + 1]
    /\ pc' = "returned"
    /\ UNCHANGED <<flagHelp, flagSearch, queryOptions, line, userInput, err, query,
                   queryURL, apiResponse, stringAnswer, parsedResponse, exitCause,
                   exitCode, prompts, prevBuilt>>

\* processAPIRequest returns.  In the one-shot branch os.Exit(1) follows; in
\* the loop the next iteration starts, and the locals of the call are gone.
Return ==
    /\ pc = "returned"
    /\ pc' = afterRequest(flagSearch)
    /\ IF afterRequest(flagSearch) = "exited"
       THEN /\ exitCause' = "os.Exit"
            /\ exitCode' = ExitStatus(1)
            /\ UNCHANGED <<query, queryURL, apiResponse, stringAnswer, parsedResponse,
                           prevBuilt>>
       ELSE /\ query' = <<>>
            /\ queryURL' = <<>>
            /\ apiResponse' = NoResponse
            /\ stringAnswer' = <<>>
            /\ parsedResponse' = ZeroResponse
            /\ prevBuilt' = [query |-> query, url |-> queryURL]
            /\ UNCHANGED <<exitCause, exitCode>>
    /\ UNCHANGED <<flagHelp, flagSearch, queryOptions, line, userInput, err, stdout,
                   prompts, calls>>

Next ==
    \/ Main
    \/ MainBadFlags
    \/ Usage
    \/ SearchPrompt
    \/ LoopBody
    \/ GetAPIURL
    \/ QueryAPI
    \/ ResponseToString
    \/ UnmarshalResponse
    \/ PrintResponse
    \/ Return

\* The program: one process, run from the entry of main.
Spec == Init /\ [][Next]_vars

\* getAPIURL as a function: processAPIRequest is entered with any query and
\* any Options value.
InitURL ==
    /\ pc = "getAPIURL"
    /\ flagHelp = FALSE
    /\ flagSearch \in Strings(QueryBytes, MaxQueryLen) \ {<<>>}
    /\ queryOptions \in OptionValues
    /\ line = NoRead
    /\ userInput = <<>>
    /\ err = "nil"
    /\ query = flagSearch
    /\ queryURL = <<>>
    /\ apiResponse = NoResponse
    /\ stringAnswer = <<>>
    /\ parsedResponse = ZeroResponse
    /\ stdout = <<>>
    /\ exitCause = "none"
    /\ exitCode = 0
    /\ prompts = 0
    /\ calls = [getAPIURL |-> 0, queryAPI |-> 0, printResponse |-> 0]
    /\ prevBuilt = NoneBuilt

NextURL == GetAPIURL

SpecURL == InitURL /\ [][NextURL]_vars

\* ------------------------------------------------------- reading a URL
\* How a server reads the URL back: the fragment is cut off at the first
\* '#', the query starts after the first '?', its parameters are separated by
\* '&', a key from its value by the first '=', and both are percent-decoded.

IsHex(c) == (c >= 48 /\ c <= 57) \/ (c >= 65 /\ c <= 70) \/ (c >= 97 /\ c <= 102)

Unhex(c) == IF c <= 57 THEN c - 48 ELSE IF c <= 70 THEN c - 55 ELSE c - 87

RECURSIVE QueryUnescape(_)
\* url.QueryUnescape: %XX is the byte XX and '+' is ' '.  A '%' without two
\* hex digits after it is an error, written here as the byte -1.
QueryUnescape(s) ==
    IF s = <<>> THEN <<>>
    ELSE IF s[1] = 37
         THEN IF Len(s) >= 3 /\ IsHex(s[2]) /\ IsHex(s[3])
              THEN <<16 * Unhex(s[2]) + Unhex(s[3])>>
                       \o QueryUnescape(SubSeq(s, 4, Len(s)))
              ELSE <<0 - 1>>
    ELSE IF s[1] = 43 THEN <<32>> \o QueryUnescape(Tail(s))
    ELSE <<s[1]>> \o QueryUnescape(Tail(s))

RECURSIVE Split(_, _)
\* strings.Split on one byte.
Split(s, sep) ==
    LET i == IndexByte(s, sep)
    IN  IF i = 0 THEN <<s>>
        ELSE <<SubSeq(s, 1, i - 1)>> \o Split(SubSeq(s, i + 1, Len(s)), sep)

\* The query of a URL, still encoded: after the first '?', before any '#'.
RawQuery(url) ==
    LET h == IndexByte(url, 35)
        u == IF h = 0 THEN url ELSE SubSeq(url, 1, h - 1)
        q == IndexByte(u, 63)
    IN  IF q = 0 THEN <<>> ELSE SubSeq(u, q + 1, Len(u))

\* One key=value segment, decoded.
Param(seg) ==
    LET e == IndexByte(seg, 61)
    IN  IF e = 0 THEN [key |-> QueryUnescape(seg), val |-> <<>>]
        ELSE [key |-> QueryUnescape(SubSeq(seg, 1, e - 1)),
              val |-> QueryUnescape(SubSeq(seg, e + 1, Len(seg)))]

\* The parameters of a URL in their order.
URLParams(url) ==
    LET segs == Split(RawQuery(url), 38)
    IN  [i \in 1..Len(segs) |-> Param(segs[i])]

\* How many times byte c occurs in s.
Count(s, c) == Cardinality({i \in 1..Len(s) : s[i] = c})

\* The parameters getAPIURL is to put into the URL for a query and options.
ExpectedParams(q, options) ==
    <<[key |-> <<113>>, val |-> q],
      [key |-> <<102, 111, 114, 109, 97, 116>>, val |-> options.Format],
      [key |-> <<112, 114, 101, 116, 116, 121>>, val |-> FmtInt(options.Pretty)],
      [key |-> <<110, 111, 95, 114, 101, 100, 105, 114, 101, 99, 116>>,
       val |-> FmtInt(options.NoRedirect)],
      [key |-> <<110, 111, 95, 104, 116, 109, 108>>, val |-> FmtInt(options.NoHTML)],
      [key |-> <<115, 107, 105, 112, 95, 100, 105, 115, 97, 109, 98, 105, 103>>,
       val |-> FmtInt(options.SkipDisambig)],
      [key |-> <<116>>,
       val |-> <<100, 117, 99, 107, 100, 117, 99, 107, 103, 111, 45, 97, 110, 115,
                 119, 101, 114, 115>>]>>

\* ----------------------------------------------------------------- modes

\* flag.Parse has returned.
FlagsParsed == pc # "main" /\ exitCause # "flag.Parse"

\* The run was started with -s and a query, without -h.
OneShot == FlagsParsed /\ ~flagHelp /\ flagSearch # <<>>

\* The run was started with neither -h nor -s.
Interactive == FlagsParsed /\ ~flagHelp /\ flagSearch = <<>>

NoCalls == [getAPIURL |-> 0, queryAPI |-> 0, printResponse |-> 0]

\* ------------------------------------------------------------------ claims

\* C1: in interactive mode a line that is empty or only white space makes
\* searchPrompt return an error ("Invalid input" for a finished line), and
\* the loop body prints that error and goes back to the prompt: that step
\* builds no URL and issues no GET (no call of getAPIURL, queryAPI or
\* printResponse is made between the two prompts).
C1_BlankLineNotQueried ==
    [][(Interactive /\ pc = "loopBody" /\ TrimSpace(line.data) = <<>>) =>
          /\ err # "nil"
          /\ ~line.eof => err = "Invalid input"
          /\ pc' = "searchPrompt"
          /\ calls' = calls
          /\ queryURL' = <<>>
          /\ apiResponse' = NoResponse
          /\ stdout' = Append(stdout, Write("Println", "", err, <<>>))]_vars

\* C1, its case: searchPrompt has returned from a line of one space.
C1_Witness ==
    /\ Interactive
    /\ pc = "loopBody"
    /\ line = ReadResult(<<32, LF>>, FALSE)
    /\ err = "Invalid input"

\* C2: started with -s and a query and without -h, the pipeline is started
\* once, for that query, and never again; the prompt loop is never entered;
\* when processAPIRequest has returned the process exits with os.Exit(1).
C2_OneShotRunsOnce ==
    OneShot =>
        /\ prompts = 0
        /\ pc \in {"getAPIURL", "queryAPI", "responseToString", "unmarshalResponse",
                   "printResponse", "returned", "exited"}
        /\ query = flagSearch
        /\ calls.getAPIURL = (IF pc = "getAPIURL" THEN 0 ELSE 1)
        /\ calls.queryAPI <= 1
        /\ calls.printResponse <= 1
        /\ pc = "exited" => exitCause \in {"os.Exit", "panic"}
        /\ (pc = "exited" /\ exitCause = "os.Exit") =>
              (exitCode = 1 /\ calls.queryAPI = 1 /\ calls.printResponse = 1)

\* C2, its case: a one-shot run that printed its answer and exited.
C2_Witness ==
    /\ OneShot
    /\ pc = "exited"
    /\ exitCause = "os.Exit"
    /\ Len(parsedResponse.RelatedTopics) = 2

\* C3: with -h the program prints the usage and exits with a status that is
\* not zero; no URL is built, no GET issued and no prompt shown, with -s and a
\* query on the command line too.
C3_HelpExitsFirst ==
    (flagHelp /\ pc # "main") =>
        /\ pc \in {"usage", "exited"}
        /\ calls = NoCalls
        /\ prompts = 0
        /\ queryURL = <<>>
        /\ pc = "exited" =>
              /\ exitCode # 0
              /\ stdout = <<Write("PrintDefaults", "", "usage", <<>>)>>

\* C3, its case: -h together with -s and a query, after the exit.
C3_Witness ==
    /\ flagHelp
    /\ flagSearch # <<>>
    /\ pc = "exited"
    /\ exitCause = "os.Exit"
    /\ exitCode = 255

\* C4 as claimed: in interactive mode no step of the program ends the
\* process.
C4_InteractiveNeverExits == Interactive => pc # "exited"

\* C4 as amended: in interactive mode the driver prompts again after an
\* error of searchPrompt and after a pipeline that ran to the end of
\* printResponse; the only steps of the program that end the process are the
\* panics of queryAPI, responseToString and unmarshalResponse.
C4_InteractiveExitsOnlyByPanic ==
    [][Interactive =>
          /\ (pc = "loopBody" /\ err # "nil") => pc' = "searchPrompt"
          /\ pc = "returned" => pc' = "searchPrompt"
          /\ pc' = "exited" =>
                /\ pc \in {"queryAPI", "responseToString", "unmarshalResponse"}
                /\ exitCause' = "panic"]_vars

\* C4, its case: one input error and one pipeline that ran, and the driver
\* is at the prompt again.
C4_Witness ==
    /\ Interactive
    /\ pc = "searchPrompt"
    /\ prompts = 2
    /\ calls.printResponse = 1

\* C5 as claimed: a response body that json.Unmarshal rejects for the
\* Response schema is never given to printResponse: its run does not get past
\* unmarshalResponse.
C5_InvalidBodyNeverPrinted ==
    (apiResponse.received /\ unmarshalResponse(apiResponse.Body).err) =>
        pc \notin {"printResponse", "returned"}

\* What printResponse wrote, once processAPIRequest has returned: the
\* writes after the prompt.
Rendered == IF flagSearch = <<>> THEN Tail(stdout) ELSE stdout

\* C6: for the decoded Response, printResponse writes the abstract line; the
\* "More info:" header and the abstract URL exactly when AbstractURL is not
\* empty; the "Related topics: " header; for each RelatedTopic in order its
\* URL line and then its text line; and the reset code last.
C6_PrintOrder ==
    pc = "returned" =>
        LET r == parsedResponse
            n == Len(r.RelatedTopics)
            k == IF r.AbstractURL # <<>> THEN 2 ELSE 0
            out == Rendered
        IN  /\ Len(out) = 1 + k + 1 + 2 * n + 1
            /\ out[1] = Write("Printf", "", "\n %s \n \n", r.AbstractText)
            /\ (\E i \in 1..Len(out) : out[i].text = "More info:") <=> r.AbstractURL # <<>>
            /\ k = 2 =>
                  /\ out[2] = Write("Println", TerminalColors["Green"], "More info:", <<>>)
                  /\ out[3] = Write("Println", TerminalColors["Blue"], "\t%s\n",
                                    r.AbstractURL)
            /\ out[k + 2] =
                  Write("Println", TerminalColors["Green"], "Related topics: ", <<>>)
            /\ \A j \in 1..n :
                  /\ out[k + 1 + 2 * j] =
                        Write("Println", TerminalColors["Blue"], "\t%s",
                              r.RelatedTopics[j].FirstURL)
                  /\ out[k + 2 + 2 * j] =
                        Write("Println", TerminalColors["White"], "\t%s\n",
                              r.RelatedTopics[j].Text)
            /\ out[Len(out)] = Write("Print", TerminalColors["Reset"], "", <<>>)

\* C6, its case: a response with an abstract URL and two different topics
\* has been printed.
C6_Witness ==
    /\ pc = "returned"
    /\ parsedResponse.AbstractURL # <<>>
    /\ Len(parsedResponse.RelatedTopics) = 2
    /\ parsedResponse.RelatedTopics[1] # parsedResponse.RelatedTopics[2]

\* C7 as claimed: in interactive mode the query given to getAPIURL does not
\* end with a line terminator.
C7_QueryWithoutNewline ==
    (Interactive /\ pc = "getAPIURL") => query[Len(query)] \notin {LF, CR}

\* C8: the URL getAPIURL returns for a query that is not empty reads back
\* as the seven parameters q, format, pretty, no_redirect, no_html,
\* skip_disambig and t, with q decoding to the query byte for byte, and holds
\* no raw space or '#' and no '&' or '=' but the separators of the seven.
C8_QueryRoundTrip ==
    (pc = "queryAPI" /\ query # <<>>) =>
        /\ URLParams(queryURL) = ExpectedParams(query, queryOptions)
        /\ Count(queryURL, 32) = 0
        /\ Count(queryURL, 35) = 0
        /\ Count(queryURL, 38) = 6
        /\ Count(queryURL, 61) = 7

\* C8, its case: a URL built for the query " &" and the format "xml".
C8_Witness ==
    /\ pc = "queryAPI"
    /\ query = <<32, 38>>
    /\ queryOptions.Format = FormatXML
    /\ queryURL # <<>>

\* C9 as claimed: whenever a response was received, its body is closed by
\* the time the pipeline run ends, by its return or by a panic.
C9_BodyClosedAtEnd ==
    (apiResponse.received /\ pc \in {"returned", "exited"}) => apiResponse.closed

\* C10: once main has built it, queryOptions is the Options value of the
\* source and no step changes it; every URL built carries format=json,
\* pretty=1, no_redirect=1, no_html=1 and skip_disambig=1; and a query with
\* the text of the request before it gets the URL of that request.
C10_OptionsFixed ==
    /\ pc # "main" => queryOptions = MainOptions
    /\ queryURL # <<>> =>
          LET ps == URLParams(queryURL)
          IN  /\ Len(ps) = 7
              /\ \A i \in 2..6 : ps[i] = ExpectedParams(query, MainOptions)[i]
    /\ (queryURL # <<>> /\ prevBuilt.query = query) => queryURL = prevBuilt.url

\* C10, its case: the second request of a run has the text of the first and
\* its URL is built.
C10_Witness ==
    /\ queryURL # <<>>
    /\ prevBuilt.query = query
    /\ prevBuilt.url # <<>>

====
